---------------------------- MODULE Spec2Model ----------------------------
(***************************************************************************)
(* BackRemove gateway (src/app/main.py): the per-client lockout state      *)
(* machine behind verify_api_key, the size-bounded upload loop and the     *)
(* timeout-bound offload of _process_image inside remove_bg.               *)
(*                                                                         *)
(* Time is time.monotonic() in whole seconds.  The program constants keep  *)
(* their source values; the clock advances in steps of TickStep seconds.   *)
(***************************************************************************)
EXTENDS Integers, Sequences, FiniteSets, TLC

(***************************************************************************)
(* Program constants (src/app/main.py:26-45).                              *)
(***************************************************************************)
INFERENCE_TIMEOUT == 120
MAX_FAILED_ATTEMPTS == 5
BLOCK_DURATION == 900
ATTEMPT_WINDOW == 60
ALLOWED_TYPES ==
    {"image/jpeg", "image/png", "image/webp", "image/gif", "image/avif", "image/svg+xml"}
MAX_FILE_SIZE == 20 * 1024 * 1024
CHUNK_SIZE == 1024 * 256

(***************************************************************************)
(* Bounds of the model.                                                    *)
(***************************************************************************)
TickStep == 30      \* seconds of a short clock step
MaxTicks == 3       \* clock steps in one run

None == "None"
Secret == "secret"
Ids == {"1.2.3.4", "unknown"}
Client == "1.2.3.4"
Keys == {Secret, "wrong", None}

VARIABLES
    API_KEY,          \* os.environ.get("API_KEY"): None or the secret
    now,              \* the value time.monotonic() returns
    failed_attempts,  \* dict ip -> list of failure times
    blocked_ips,      \* dict ip -> time of the lockout
    auth,             \* the last verify_api_key call: its inputs and outcome
    ticks,            \* clock steps taken so far
    recent,           \* history: per ip, its failures inside the window of its newest failure
    aged,             \* history: the identities that had a failure leave the window
    up,               \* an upload loop of remove_bg run alone: its stream and local variables
    req,              \* the /remove-bg requests in flight, one record per slot
    probe             \* the last GET /health: who asked and the response

authVars == <<API_KEY, now, failed_attempts, blocked_ips, auth, ticks, recent, aged>>
vars == <<API_KEY, now, failed_attempts, blocked_ips, auth, ticks, recent, aged, up, req, probe>>

(***************************************************************************)
(* Python dicts as functions on the set of keys present.                   *)
(***************************************************************************)
EmptyDict == [x \in {} |-> 0]
DictGet(d, k, default) == IF k \in DOMAIN d THEN d[k] ELSE default
DictSet(d, k, v) == [x \in (DOMAIN d) \cup {k} |-> IF x = k THEN v ELSE d[x]]
DictPop(d, k) == [x \in (DOMAIN d) \ {k} |-> d[x]]

(***************************************************************************)
(* _is_blocked(ip), reading the clock at t: the returned value and the     *)
(* two dicts after the call.                                               *)
(***************************************************************************)
is_blocked_inclusive(ip, t, fa, bl) ==
    IF ip \in DOMAIN bl
    THEN IF t - bl[ip] <= BLOCK_DURATION
         THEN [result |-> TRUE, fa |-> fa, bl |-> bl]
         ELSE [result |-> FALSE, fa |-> DictPop(fa, ip), bl |-> DictPop(bl, ip)]
    ELSE [result |-> FALSE, fa |-> fa, bl |-> bl]

is_blocked_keeps_attempts(ip, t, fa, bl) ==
    IF ip \in DOMAIN bl
    THEN IF t - bl[ip] < BLOCK_DURATION
         THEN [result |-> TRUE, fa |-> fa, bl |-> bl]
         ELSE [result |-> FALSE, fa |-> fa, bl |-> DictPop(bl, ip)]
    ELSE [result |-> FALSE, fa |-> fa, bl |-> bl]

is_blocked_extends(ip, t, fa, bl) ==
    IF ip \in DOMAIN bl
    THEN IF t - bl[ip] < BLOCK_DURATION
         THEN [result |-> TRUE, fa |-> fa, bl |-> DictSet(bl, ip, t)]
         ELSE [result |-> FALSE, fa |-> DictPop(fa, ip), bl |-> DictPop(bl, ip)]
    ELSE [result |-> FALSE, fa |-> fa, bl |-> bl]

is_blocked(ip, t, fa, bl) ==
    IF ip \in DOMAIN bl
    THEN IF t - bl[ip] < BLOCK_DURATION
         THEN [result |-> TRUE, fa |-> fa, bl |-> bl]
         ELSE [result |-> FALSE, fa |-> DictPop(fa, ip), bl |-> DictPop(bl, ip)]
    ELSE [result |-> FALSE, fa |-> fa, bl |-> bl]

(***************************************************************************)
(* _record_failure(ip), reading the clock at t: the two dicts after it.    *)
(***************************************************************************)
InWindowInclusive(t, x) == t - x <= ATTEMPT_WINDOW
InWindow(t, x) == t - x < ATTEMPT_WINDOW

record_failure_twice(ip, t, fa, bl) ==
    LET kept == SelectSeq(DictGet(fa, ip, <<>>), LAMBDA x : InWindow(t, x))
        attempts == Append(Append(kept, t), t)
    IN  [fa |-> DictSet(fa, ip, attempts),
         bl |-> IF Len(attempts) >= MAX_FAILED_ATTEMPTS THEN DictSet(bl, ip, t) ELSE bl]

record_failure_lost(ip, t, fa, bl) ==
    LET attempts == <<t>>
    IN  [fa |-> DictSet(fa, ip, attempts),
         bl |-> IF Len(attempts) >= MAX_FAILED_ATTEMPTS THEN DictSet(bl, ip, t) ELSE bl]

record_failure_late_block(ip, t, fa, bl) ==
    LET kept == SelectSeq(DictGet(fa, ip, <<>>), LAMBDA x : InWindow(t, x))
        attempts == Append(kept, t)
    IN  [fa |-> DictSet(fa, ip, attempts),
         bl |-> IF Len(attempts) > MAX_FAILED_ATTEMPTS THEN DictSet(bl, ip, t) ELSE bl]

record_failure(ip, t, fa, bl) ==
    LET kept == SelectSeq(DictGet(fa, ip, <<>>), LAMBDA x : InWindow(t, x))
        attempts == Append(kept, t)
    IN  [fa |-> DictSet(fa, ip, attempts),
         bl |-> IF Len(attempts) >= MAX_FAILED_ATTEMPTS THEN DictSet(bl, ip, t) ELSE bl]

(***************************************************************************)
(* History kept beside the program.  recent: every failure of an identity, *)
(* dropped once a later failure finds it ATTEMPT_WINDOW old or older (the  *)
(* clock is monotonic, so it can never count again).  aged: the identities *)
(* that had a failure dropped so.  LockedSince: the time of an identity's  *)
(* newest failure when that failure was at least the MAX_FAILED_ATTEMPTS-th*)
(* inside its window, else Never.                                          *)
(***************************************************************************)
Never == 0 - 1
Young(s, t) == SelectSeq(s, LAMBDA x : t - x < ATTEMPT_WINDOW)
Remember(h, ip, t) == DictSet(h, ip, Append(Young(DictGet(h, ip, <<>>), t), t))
Forgets(h, ip, t) == Young(DictGet(h, ip, <<>>), t) # DictGet(h, ip, <<>>)
LockedSince(h, ip) ==
    IF Len(DictGet(h, ip, <<>>)) >= MAX_FAILED_ATTEMPTS THEN h[ip][Len(h[ip])] ELSE Never

(***************************************************************************)
(* The clock: it advances by a short step or by a long sleep.              *)
(***************************************************************************)
LongStep == BLOCK_DURATION - 2 * TickStep
Steps == {TickStep, LongStep}

Tick ==
    /\ ticks < MaxTicks
    /\ \E d \in Steps : now' = now + d
    /\ ticks' = ticks + 1

(***************************************************************************)
(* verify_api_key for a request of identity ip carrying key.  The function *)
(* has no await: it runs as one step, and its two reads of the clock (in   *)
(* _is_blocked and in _record_failure) fall in the same second.            *)
(***************************************************************************)
AuthRecord(ip, key, result) ==
    [ip |-> ip, key |-> key, result |-> result, turn |-> 1 - auth.turn]

AuthDisabledNever == FALSE
AuthDisabled == API_KEY = None

KeyBeforeBlock(blocked, key) ==
    IF key = API_KEY THEN "Allow" ELSE IF blocked THEN "Lockout" ELSE "Reject"
Decision(blocked, key) ==
    IF blocked THEN "Lockout" ELSE IF key # API_KEY THEN "Reject" ELSE "Allow"

verify_api_key_resets(ip, key) ==
    IF AuthDisabled
    THEN /\ auth' = AuthRecord(ip, key, "Allow")
         /\ UNCHANGED <<API_KEY, now, ticks, failed_attempts, blocked_ips, recent, aged>>
    ELSE LET chk == is_blocked(ip, now, failed_attempts, blocked_ips)
             result == Decision(chk.result, key)
         IN  /\ auth' = AuthRecord(ip, key, result)
             /\ UNCHANGED API_KEY
             /\ IF result = "Reject"
                THEN LET rec == record_failure(ip, now, chk.fa, chk.bl)
                     IN  /\ failed_attempts' = rec.fa
                         /\ blocked_ips' = rec.bl
                         /\ recent' = Remember(recent, ip, now)
                         /\ aged' = IF Forgets(recent, ip, now) THEN aged \cup {ip} ELSE aged
                ELSE /\ failed_attempts' = IF result = "Allow" THEN DictPop(chk.fa, ip) ELSE chk.fa
                     /\ blocked_ips' = chk.bl
                     /\ UNCHANGED <<recent, aged>>
             /\ UNCHANGED <<now, ticks>>

verify_api_key(ip, key) ==
    IF AuthDisabled
    THEN /\ auth' = AuthRecord(ip, key, "Allow")
         /\ UNCHANGED <<API_KEY, now, ticks, failed_attempts, blocked_ips, recent, aged>>
    ELSE LET chk == is_blocked(ip, now, failed_attempts, blocked_ips)
             result == Decision(chk.result, key)
         IN  /\ auth' = AuthRecord(ip, key, result)
             /\ UNCHANGED API_KEY
             /\ IF result = "Reject"
                THEN LET rec == record_failure(ip, now, chk.fa, chk.bl)
                     IN  /\ failed_attempts' = rec.fa
                         /\ blocked_ips' = rec.bl
                         /\ recent' = Remember(recent, ip, now)
                         /\ aged' = IF Forgets(recent, ip, now) THEN aged \cup {ip} ELSE aged
                ELSE /\ failed_attempts' = chk.fa
                     /\ blocked_ips' = chk.bl
                     /\ UNCHANGED <<recent, aged>>
             /\ UNCHANGED <<now, ticks>>

(***************************************************************************)
(* Byte strings of an upload: a sequence of segments <<lo, hi>>, the bytes *)
(* lo .. hi-1 of the uploaded stream; adjacent segments are one segment.   *)
(***************************************************************************)
Stream(n) == IF n = 0 THEN <<>> ELSE << <<0, n>> >>
Slice(lo, hi) == IF lo = hi THEN <<>> ELSE << <<lo, hi>> >>
Concat(a, b) ==
    IF a = <<>> THEN b
    ELSE IF b = <<>> THEN a
    ELSE IF a[Len(a)][2] = b[1][1]
         THEN SubSeq(a, 1, Len(a) - 1) \o << <<a[Len(a)][1], b[1][2]>> >> \o Tail(b)
         ELSE a \o b

\* b"".join(chunks): the chunks concatenated in order (by halves).
RECURSIVE Join(_)
Join(chunks) ==
    IF chunks = <<>> THEN <<>>
    ELSE IF Len(chunks) = 1 THEN chunks[1]
    ELSE LET h == Len(chunks) \div 2
         IN  Concat(Join(SubSeq(chunks, 1, h)), Join(SubSeq(chunks, h + 1, Len(chunks))))

(***************************************************************************)
(* The upload loop of remove_bg (lines 136-146).  A loop state holds the   *)
(* position in the stream, chunks, total and where the loop stands.        *)
(* ReadStep is one iteration, given the n bytes file.read returned.        *)
(***************************************************************************)
LoopStart == [pos |-> 0, total |-> 0, chunks |-> <<>>, at |-> "reading"]

ReadStepInclusive(ls, n) ==
    IF n = 0
    THEN [ls EXCEPT !.at = "done"]
    ELSE IF ls.total + n >= MAX_FILE_SIZE
         THEN [ls EXCEPT !.pos = @ + n, !.total = @ + n, !.at = "oversize"]
         ELSE [ls EXCEPT !.pos = @ + n, !.total = @ + n,
                         !.chunks = Append(@, Slice(ls.pos, ls.pos + n))]

ReadStepAppendFirst(ls, n) ==
    IF n = 0
    THEN [ls EXCEPT !.at = "done"]
    ELSE IF ls.total + n > MAX_FILE_SIZE
         THEN [ls EXCEPT !.pos = @ + n, !.total = @ + n, !.at = "oversize",
                         !.chunks = Append(@, Slice(ls.pos, ls.pos + n))]
         ELSE [ls EXCEPT !.pos = @ + n, !.total = @ + n,
                         !.chunks = Append(@, Slice(ls.pos, ls.pos + n))]

ReadStep(ls, n) ==
    IF n = 0
    THEN [ls EXCEPT !.at = "done"]
    ELSE IF ls.total + n > MAX_FILE_SIZE
         THEN [ls EXCEPT !.pos = @ + n, !.total = @ + n, !.at = "oversize"]
         ELSE [ls EXCEPT !.pos = @ + n, !.total = @ + n,
                         !.chunks = Append(@, Slice(ls.pos, ls.pos + n))]

Min(a, b) == IF a <= b THEN a ELSE b

\* file.read(1024 * 256) on a stream of size bytes: all it asks for, or what is left.
FullRead(size, pos) == Min(CHUNK_SIZE, size - pos)

\* One pass through the loop body unless the loop has ended.
Iterate(ls, size) == IF ls.at # "reading" THEN ls ELSE ReadStep(ls, FullRead(size, ls.pos))

\* k passes (by halves); MaxReads passes end the loop on any stream that
\* hands out full chunks: it ends at the first byte past MAX_FILE_SIZE.
RECURSIVE IterateTimes(_, _, _)
IterateTimes(ls, size, k) ==
    IF k = 0 THEN ls
    ELSE IF k = 1 THEN Iterate(ls, size)
    ELSE LET half == IterateTimes(ls, size, k \div 2)
         IN  IF half.at # "reading" THEN half
             ELSE IterateTimes(half, size, k - k \div 2)

MaxReads == MAX_FILE_SIZE \div CHUNK_SIZE + 2
ReadAll(size) == IterateTimes(LoopStart, size, MaxReads)

(***************************************************************************)
(* Responses.  A detail is the sequence of the pieces of the message.      *)
(***************************************************************************)
\* No bytes held (a request whose body was not read, a response without a
\* file): a segment that is no part of any stream.
NoBytes == << <<Never, Never>> >>
Detail429 == <<"Too many failed attempts. Try again later.">>
Detail401 == <<"Invalid or missing API key.">>
Detail415(ctype) == <<"Unsupported file type: ", ctype, ". Allowed: ", "ALLOWED_TYPES">>
Detail413 == <<"File too large. Max 20 MB.">>
Detail504 == <<"Processing timed out.">>
Detail500 == <<"Background removal failed.">>

\* _process_image(image_bytes, content_type) when it returns: a PNG made from both.
ProcessImage(image, ctype) == <<"png of", image, ctype>>

(***************************************************************************)
(* One /remove-bg request.  pc is the stage reached; ctype is the content  *)
(* type the file part declares; sent counts the responses sent for it.     *)
(***************************************************************************)
Reqs == {1, 2}
ContentTypes == {"image/png", "image/svg+xml", "image/bmp", None}
Sizes == {1, MAX_FILE_SIZE, MAX_FILE_SIZE + 1}
Raises == {"Exception", "TimeoutError"}

Idle ==
    [pc |-> "Idle", ctype |-> None, image |-> NoBytes, work |-> "none",
     started |-> Never, took |-> Never,
     kind |-> None, status |-> 0, detail |-> <<>>, body |-> NoBytes, sent |-> 0]

Respond(r, kind, status, detail, body) ==
    [r EXCEPT !.pc = "Responded", !.kind = kind, !.status = status,
              !.detail = detail, !.body = body, !.sent = @ + 1]

\* A request arrives whose file part declares ctype.
Receive(i) ==
    /\ req[i].pc \in {"Idle", "Responded"}
    /\ \E ctype \in ContentTypes :
         req' = [req EXCEPT ![i] = [Idle EXCEPT !.pc = "Received", !.ctype = ctype]]
    /\ UNCHANGED <<authVars, up, probe>>

\* The dependency verify_api_key (line 128), for a request of identity ip
\* carrying key: 429, 401 or on to the handler.
AfterAuthLenient(r, result) == [r EXCEPT !.pc = "Authenticated"]
AfterAuth(r, result) ==
    IF result = "Lockout"
    THEN Respond(r, "AuthLockedOut", 429, Detail429, NoBytes)
    ELSE IF result = "Reject"
         THEN Respond(r, "AuthInvalid", 401, Detail401, NoBytes)
         ELSE [r EXCEPT !.pc = "Authenticated"]

Authenticate(i, ip, key) ==
    /\ req[i].pc = "Received"
    /\ verify_api_key(ip, key)
    /\ req' = [req EXCEPT ![i] = AfterAuth(req[i], auth'.result)]
    /\ UNCHANGED <<up, probe>>

\* Lines 130-134.
AfterTypeCheckSkipped(r) == [r EXCEPT !.pc = "TypeChecked"]
AfterTypeCheck(r) ==
    IF r.ctype \notin ALLOWED_TYPES
    THEN Respond(r, "UnsupportedType", 415, Detail415(r.ctype), NoBytes)
    ELSE [r EXCEPT !.pc = "TypeChecked"]

TypeCheck(i) ==
    /\ req[i].pc = "Authenticated"
    /\ req' = [req EXCEPT ![i] = AfterTypeCheck(req[i])]
    /\ UNCHANGED <<authVars, up, probe>>

\* Lines 136-146: the whole loop over a stream of size bytes that hands out
\* full chunks.
AfterUpload(r, ls) ==
    IF ls.at = "oversize"
    THEN Respond(r, "PayloadTooLarge", 413, Detail413, NoBytes)
    ELSE [r EXCEPT !.pc = "Uploaded", !.image = Join(ls.chunks)]

Upload(i) ==
    /\ req[i].pc = "TypeChecked"
    /\ \E size \in Sizes : req' = [req EXCEPT ![i] = AfterUpload(req[i], ReadAll(size))]
    /\ UNCHANGED <<authVars, up, probe>>

\* Lines 149-152: fail_after arms the deadline and to_thread.run_sync hands
\* _process_image to a worker thread.
StartWork(i) ==
    /\ req[i].pc = "Uploaded"
    /\ req[i].work = "none"
    /\ req' = [req EXCEPT ![i].work = "running", ![i].started = now]
    /\ UNCHANGED <<authVars, up, probe>>

\* What the handler does when the worker thread's call ends, took seconds
\* after its start, by returning (raised = None) or by raising.  The wait of
\* to_thread.run_sync is shielded from the cancellation of fail_after
\* (abandon_on_cancel is left False), so the handler resumes only here, with
\* the call's own result, and fail_after raises nothing of its own.  Lines
\* 153-158: except TimeoutError comes before except Exception.
AfterWorkShared(r, took, raised) ==
    IF raised = "TimeoutError"
    THEN Respond([r EXCEPT !.work = "raised", !.started = Never, !.took = took],
                 "ProcessingTimeout", 504, Detail504, NoBytes)
    ELSE IF raised # None
         THEN Respond([r EXCEPT !.work = "raised", !.started = Never, !.took = took],
                      "ProcessingFailure", 500, Detail500, NoBytes)
         ELSE [r EXCEPT !.work = "returned", !.started = Never, !.took = took,
                        !.pc = "Processed", !.body = ProcessImage(Stream(1), "image/png")]

AfterWork(r, took, raised) ==
    IF raised = "TimeoutError"
    THEN Respond([r EXCEPT !.work = "raised", !.started = Never, !.took = took],
                 "ProcessingTimeout", 504, Detail504, NoBytes)
    ELSE IF raised # None
         THEN Respond([r EXCEPT !.work = "raised", !.started = Never, !.took = took],
                      "ProcessingFailure", 500, Detail500, NoBytes)
         ELSE [r EXCEPT !.work = "returned", !.started = Never, !.took = took,
                        !.pc = "Processed", !.body = ProcessImage(r.image, r.ctype)]

WorkEnds(i) ==
    /\ req[i].pc = "Uploaded"
    /\ req[i].work = "running"
    /\ \E raised \in Raises \cup {None} :
         req' = [req EXCEPT ![i] = AfterWork(req[i], now - req[i].started, raised)]
    /\ UNCHANGED <<authVars, up, probe>>

\* Lines 160-164.
Return200(i) ==
    /\ req[i].pc = "Processed"
    /\ req' = [req EXCEPT ![i] = Respond(req[i], "Success", 200, <<>>, req[i].body)]
    /\ UNCHANGED <<authVars, up, probe>>

ClockTick == Tick /\ UNCHANGED <<API_KEY, failed_attempts, blocked_ips, auth, recent, aged, up, req, probe>>

(***************************************************************************)
(* The upload loop of lines 136-146 run alone, one file.read per step,     *)
(* over a stream of up.size bytes.  A read returns what is left up to      *)
(* CHUNK_SIZE bytes, or, MaxShortReads times in a run, only ShortLen bytes.*)
(***************************************************************************)
ShortLen == 1
MaxShortReads == 1
UploadSizes ==
    {0, 1, MAX_FILE_SIZE, MAX_FILE_SIZE + 1, MAX_FILE_SIZE + CHUNK_SIZE}

NoUpload == [size |-> 0, short |-> 0, ls |-> [LoopStart EXCEPT !.at = "idle"]]

Reads(u) ==
    {FullRead(u.size, u.ls.pos)} \cup
    (IF u.short < MaxShortReads /\ ShortLen < FullRead(u.size, u.ls.pos)
     THEN {ShortLen} ELSE {})

UploadBegin ==
    /\ up.ls.at # "reading"
    /\ \E size \in UploadSizes : up' = [size |-> size, short |-> 0, ls |-> LoopStart]
    /\ UNCHANGED <<authVars, req, probe>>

UploadRead ==
    /\ up.ls.at = "reading"
    /\ \E n \in Reads(up) :
         up' = [up EXCEPT !.ls = ReadStep(@, n),
                          !.short = IF n < FullRead(up.size, up.ls.pos) THEN @ + 1 ELSE @]
    /\ UNCHANGED <<authVars, req, probe>>

(***************************************************************************)
(* GET /health (lines 123-125) from identity ip carrying key: the route    *)
(* has no dependency and the handler returns a constant.                   *)
(***************************************************************************)
NoProbe == [ip |-> None, key |-> None, status |-> 0, body |-> <<>>, turn |-> 0]

HealthBody == <<"status", "ok">>

HealthGuarded(ip, key) ==
    /\ verify_api_key(ip, key)
    /\ probe' = [ip |-> ip, key |-> key,
                 status |-> IF auth'.result = "Allow" THEN 200 ELSE 401,
                 body |-> HealthBody, turn |-> 1 - probe.turn]
    /\ UNCHANGED <<up, req>>

Health(ip, key) ==
    /\ probe' = [ip |-> ip, key |-> key, status |-> 200, body |-> HealthBody,
                 turn |-> 1 - probe.turn]
    /\ UNCHANGED <<authVars, up, req>>

Init ==
    /\ API_KEY \in {None, Secret}
    /\ now = 0
    /\ ticks = 0
    /\ failed_attempts = EmptyDict
    /\ blocked_ips = EmptyDict
    /\ auth = [ip |-> None, key |-> None, result |-> None, turn |-> 0]
    /\ recent = EmptyDict
    /\ aged = {}
    /\ up = NoUpload
    /\ req = [i \in Reqs |-> Idle]
    /\ probe = NoProbe

(***************************************************************************)
(* The gateway serving two requests at a time, the clock standing still.   *)
(***************************************************************************)
GatewayNext ==
    \/ \E i \in Reqs : Receive(i)
    \/ \E i \in Reqs, ip \in Ids, key \in Keys : Authenticate(i, ip, key)
    \/ \E i \in Reqs : TypeCheck(i)
    \/ \E i \in Reqs : Upload(i)
    \/ \E i \in Reqs : StartWork(i)
    \/ \E i \in Reqs : WorkEnds(i)
    \/ \E i \in Reqs : Return200(i)

SpecGateway == Init /\ [][GatewayNext]_vars

(***************************************************************************)
(* One request at a time, from clients that hold the key, while the clock  *)
(* runs.                                                                   *)
(***************************************************************************)
TimedNext ==
    \/ Receive(1)
    \/ \E ip \in Ids : Authenticate(1, ip, Secret)
    \/ TypeCheck(1)
    \/ Upload(1)
    \/ StartWork(1)
    \/ WorkEnds(1)
    \/ Return200(1)
    \/ ClockTick

SpecTimed == Init /\ [][TimedNext]_vars

(***************************************************************************)
(* One client sending one request at a time with any key or none, while    *)
(* the clock runs.                                                         *)
(***************************************************************************)
LockoutNext ==
    \/ Receive(1)
    \/ \E key \in Keys : Authenticate(1, Client, key)
    \/ TypeCheck(1)
    \/ Upload(1)
    \/ StartWork(1)
    \/ WorkEnds(1)
    \/ Return200(1)
    \/ ClockTick

SpecLockout == Init /\ [][LockoutNext]_vars

(***************************************************************************)
(* The upload loop alone.                                                  *)
(***************************************************************************)
UploadNext == UploadBegin \/ UploadRead

SpecUpload == Init /\ [][UploadNext]_vars

(***************************************************************************)
(* The authenticator alone: calls of verify_api_key and the passing clock. *)
(***************************************************************************)
AuthCall ==
    /\ \E ip \in Ids, key \in Keys : verify_api_key(ip, key)
    /\ UNCHANGED <<up, req, probe>>

AuthNext == AuthCall \/ ClockTick

SpecAuth == Init /\ [][AuthNext]_vars

(***************************************************************************)
(* The liveness probe beside the authenticator: /health asked by anyone    *)
(* while one client tries keys and the clock runs.                         *)
(***************************************************************************)
HealthCall == \E ip \in Ids, key \in Keys : Health(ip, key)

ClientCall ==
    /\ \E key \in Keys : verify_api_key(Client, key)
    /\ UNCHANGED <<up, req, probe>>

HealthNext == HealthCall \/ ClientCall \/ ClockTick

SpecHealth == Init /\ [][HealthNext]_vars

(***************************************************************************)
(* Claims about the authenticator, checked under SpecAuth.                 *)
(***************************************************************************)
CallStep == auth'.turn # auth.turn

\* C1: with a secret configured, every _is_blocked check of an identity is
\* true exactly when the identity's newest failure completed
\* MAX_FAILED_ATTEMPTS failures inside ATTEMPT_WINDOW and the check is made
\* less than BLOCK_DURATION after that failure; at BLOCK_DURATION or later
\* (and when no lockout was triggered) it is false.
C1_BlockedForBlockDuration ==
    [][(CallStep /\ API_KEY # None) =>
         LET since == LockedSince(recent, auth'.ip)
         IN  (auth'.result = "Lockout") <=> (since # Never /\ now - since < BLOCK_DURATION)
      ]_vars

\* A check made exactly BLOCK_DURATION after the triggering failure was false.
C1_Witness ==
    /\ auth.result = "Allow"
    /\ LockedSince(recent, auth.ip) # Never
    /\ now - LockedSince(recent, auth.ip) = BLOCK_DURATION
    /\ auth.ip \notin DOMAIN blocked_ips

\* C2: a lockout record is created or changed only by the _record_failure of
\* a rejected request of that identity, with the time of that failure, and
\* only when the identity's failures of age below ATTEMPT_WINDOW, the new one
\* included, number MAX_FAILED_ATTEMPTS or more; every lockout record present
\* is the time of such a failure.
C2_LockoutCreated(ip) ==
    /\ ip \in DOMAIN blocked_ips'
    /\ ip \in DOMAIN blocked_ips => blocked_ips'[ip] # blocked_ips[ip]

C2_SlidingWindow ==
    /\ [][\A ip \in Ids : C2_LockoutCreated(ip) =>
            /\ CallStep
            /\ auth'.result = "Reject"
            /\ auth'.ip = ip
            /\ blocked_ips'[ip] = now'
            /\ Len(recent'[ip]) >= MAX_FAILED_ATTEMPTS
         ]_vars
    /\ [](\A ip \in DOMAIN blocked_ips : LockedSince(recent, ip) = blocked_ips[ip])

\* An identity with MAX_FAILED_ATTEMPTS failures or more in total (one aged
\* out, MAX_FAILED_ATTEMPTS - 1 on record) that was never blocked.
C2_Witness ==
    \E ip \in aged :
        /\ now < BLOCK_DURATION
        /\ ip \notin DOMAIN blocked_ips
        /\ Len(DictGet(failed_attempts, ip, <<>>)) = MAX_FAILED_ATTEMPTS - 1

\* C3: with a secret configured, a request of an identity whose lockout is
\* younger than BLOCK_DURATION gets Lockout whatever its key; a request with
\* the correct key made BLOCK_DURATION or more after the lockout gets Allow.
C3_LockoutWhateverKey ==
    [][(CallStep /\ API_KEY # None /\ auth'.ip \in DOMAIN blocked_ips) =>
         LET age == now - blocked_ips[auth'.ip]
         IN  /\ age < BLOCK_DURATION => auth'.result = "Lockout"
             /\ (age >= BLOCK_DURATION /\ auth'.key = API_KEY) => auth'.result = "Allow"
      ]_vars

\* A blocked identity presented the correct key and got Lockout.
C3_Witness ==
    /\ auth.result = "Lockout"
    /\ auth.key = Secret
    /\ API_KEY = Secret

\* C4: with no secret configured every call returns Allow and both dicts
\* stay empty.
C4_DisabledAllowsAll ==
    API_KEY = None =>
        /\ auth.result \in {None, "Allow"}
        /\ failed_attempts = EmptyDict
        /\ blocked_ips = EmptyDict

\* With no secret configured a request with a wrong key was allowed.
C4_Witness ==
    /\ API_KEY = None
    /\ auth.key = "wrong"
    /\ auth.result = "Allow"

(***************************************************************************)
(* Claims about the processing stage, checked under SpecTimed.             *)
(***************************************************************************)
\* C5: a request whose work returned without error more than
\* INFERENCE_TIMEOUT seconds after it was started is answered with 504
\* (ProcessingTimeout), never with 200.
C5_LateWorkIs504 ==
    \A i \in Reqs :
        (req[i].pc = "Responded" /\ req[i].work = "returned" /\ req[i].took > INFERENCE_TIMEOUT)
            => (req[i].status = 504 /\ req[i].kind = "ProcessingTimeout")

(***************************************************************************)
(* Claims about the upload loop, checked under SpecUpload.                 *)
(***************************************************************************)
\* C6: whatever the sizes of the reads, the loop over a stream of at most
\* MAX_FILE_SIZE bytes ends with exactly the bytes of the stream, the loop
\* over a stream of MAX_FILE_SIZE + 1 bytes or more ends with 413, and the
\* outcome is the one of the same stream read in full chunks.
C6_UploadLimit ==
    /\ up.ls.at = "done" =>
         /\ up.size <= MAX_FILE_SIZE
         /\ Join(up.ls.chunks) = Stream(up.size)
    /\ up.ls.at = "oversize" => up.size >= MAX_FILE_SIZE + 1
    /\ up.ls.at \in {"done", "oversize"} =>
         /\ ReadAll(up.size).at = up.ls.at
         /\ up.ls.at = "done" => Join(ReadAll(up.size).chunks) = Join(up.ls.chunks)

\* A stream of exactly MAX_FILE_SIZE bytes was accepted after a short read
\* moved every later chunk boundary.
C6_Witness ==
    /\ up.size = MAX_FILE_SIZE
    /\ up.ls.at = "done"
    /\ up.short > 0
    /\ Len(up.ls.chunks) > MAX_FILE_SIZE \div CHUNK_SIZE

(***************************************************************************)
(* Claims about the request pipeline, checked under SpecGateway.           *)
(***************************************************************************)
\* C7: a request whose declared content type is not in ALLOWED_TYPES never
\* has work started for it and never has its body read by the upload loop;
\* it is answered with 429, 401 or 415 only, and once it has passed
\* verify_api_key its next step is the 415 response.
C7_UnsupportedNeverWorks ==
    /\ [](\A i \in Reqs : req[i].ctype \notin ALLOWED_TYPES =>
            /\ req[i].work = "none"
            /\ req[i].started = Never
            /\ req[i].image = NoBytes
            /\ req[i].pc \in {"Idle", "Received", "Authenticated", "Responded"}
            /\ req[i].pc = "Responded" => req[i].status \in {429, 401, 415})
    /\ [][\A i \in Reqs :
            (req[i].pc = "Authenticated" /\ req[i].ctype \notin ALLOWED_TYPES /\ req'[i] # req[i])
                => /\ req'[i].pc = "Responded"
                   /\ req'[i].status = 415
                   /\ req'[i].kind = "UnsupportedType"
                   /\ req'[i].work = "none"
                   /\ req'[i].image = NoBytes
         ]_vars

\* An authenticated request declaring image/bmp was answered with 415.
C7_Witness ==
    \E i \in Reqs :
        /\ req[i].ctype = "image/bmp"
        /\ req[i].pc = "Responded"
        /\ req[i].status = 415
        /\ req[i].work = "none"

\* C8: a request moves Received, Authenticated, TypeChecked, Uploaded,
\* Processed, Responded in that order; the stage that fails answers at once
\* with its own error (429/401, then 415, then 413, then 504/500), nothing
\* of a later stage happens for it, and it gets one response.
C8_Stage(r) ==
    /\ r.sent = (IF r.pc = "Responded" THEN 1 ELSE 0)
    /\ r.image # NoBytes =>
         \/ r.pc \in {"Uploaded", "Processed"}
         \/ r.pc = "Responded" /\ r.status \in {504, 500, 200}
    /\ r.work # "none" =>
         \/ r.pc \in {"Uploaded", "Processed"}
         \/ r.pc = "Responded" /\ r.status \in {504, 500, 200}
    /\ r.pc = "Responded" /\ r.status \in {504, 500, 200} => r.work \in {"raised", "returned"}
    /\ r.pc = "Responded" /\ r.status \in {429, 401, 415, 413} => r.work = "none" /\ r.image = NoBytes
    /\ r.pc \in {"Idle", "Received", "Authenticated", "TypeChecked"} => r.work = "none" /\ r.image = NoBytes

C8_Move(i) ==
    \/ /\ req[i].pc \in {"Idle", "Responded"}
       /\ req'[i].pc = "Received"
    \/ /\ req[i].pc = "Received"
       /\ auth'.turn # auth.turn
       /\ \/ auth'.result = "Allow" /\ req'[i].pc = "Authenticated"
          \/ auth'.result = "Lockout" /\ req'[i].pc = "Responded" /\ req'[i].status = 429
          \/ auth'.result = "Reject" /\ req'[i].pc = "Responded" /\ req'[i].status = 401
    \/ /\ req[i].pc = "Authenticated"
       /\ \/ req[i].ctype \in ALLOWED_TYPES /\ req'[i].pc = "TypeChecked"
          \/ req[i].ctype \notin ALLOWED_TYPES /\ req'[i].pc = "Responded" /\ req'[i].status = 415
    \/ /\ req[i].pc = "TypeChecked"
       /\ \/ req'[i].pc = "Uploaded"
          \/ req'[i].pc = "Responded" /\ req'[i].status = 413
    \/ /\ req[i].pc = "Uploaded"
       /\ req[i].work = "running"
       /\ \/ req'[i].pc = "Processed"
          \/ req'[i].pc = "Responded" /\ req'[i].status \in {504, 500}
    \/ /\ req[i].pc = "Processed"
       /\ req'[i].pc = "Responded"
       /\ req'[i].status = 200

C9_FailureBeforeDeadlineIs500 ==
    \A i \in Reqs :
        (req[i].work = "raised" /\ req[i].took < INFERENCE_TIMEOUT)
            => (req[i].status = 500 /\ req[i].detail = Detail500)

\* C10: two requests answered with the same error kind got the same status
\* and the same message.
C10_SameKindSameMessage ==
    \A i, j \in Reqs :
        (/\ req[i].pc = "Responded" /\ req[j].pc = "Responded"
         /\ req[i].kind = req[j].kind
         /\ req[i].kind # "Success")
            => (req[i].status = req[j].status /\ req[i].detail = req[j].detail)

(***************************************************************************)
(* Claims about the liveness probe, checked under SpecHealth.              *)
(***************************************************************************)
\* C11: in every reachable state GET /health can be served to any identity
\* with any key or none; every response is 200 with status "ok"; serving it
\* makes no verify_api_key call and changes neither dict.
C11_HealthAlwaysOk ==
    /\ [](\A ip \in Ids, key \in Keys : ENABLED Health(ip, key))
    /\ [](probe # NoProbe => probe.status = 200 /\ probe.body = HealthBody)
    /\ [][probe' # probe =>
            /\ probe'.status = 200
            /\ probe'.body = HealthBody
            /\ auth' = auth
            /\ failed_attempts' = failed_attempts
            /\ blocked_ips' = blocked_ips
            /\ recent' = recent
         ]_vars

\* A locked-out identity asked /health without a key and got 200.
C11_Witness ==
    /\ API_KEY = Secret
    /\ probe.ip = Client
    /\ probe.key = None
    /\ probe.status = 200
    /\ Client \in DOMAIN blocked_ips
    /\ now - blocked_ips[Client] < BLOCK_DURATION
    /\ auth.result = "Lockout"

(***************************************************************************)
(* More claims about the authenticator, checked under SpecAuth.            *)
(***************************************************************************)
Expired(ip) == ip \in DOMAIN blocked_ips /\ now - blocked_ips[ip] >= BLOCK_DURATION

\* C12: a call whose _is_blocked check finds the identity's lockout
\* BLOCK_DURATION old or older is not answered Lockout and removes the
\* identity from both dicts (a Reject in the same call then starts a fresh
\* list with its own failure only); a call that finds no lockout or a
\* younger one has both dicts left alone by _is_blocked (they are unchanged
\* when the call ends in Allow or Lockout); other identities are untouched.
C12_LazyReset ==
    [][(CallStep /\ API_KEY # None) =>
         LET ip == auth'.ip
         IN  /\ \A x \in Ids \ {ip} :
                   /\ DictGet(failed_attempts', x, <<>>) = DictGet(failed_attempts, x, <<>>)
                   /\ DictGet(blocked_ips', x, Never) = DictGet(blocked_ips, x, Never)
             /\ Expired(ip) =>
                   /\ auth'.result # "Lockout"
                   /\ ip \notin DOMAIN blocked_ips'
                   /\ auth'.result = "Allow" => ip \notin DOMAIN failed_attempts'
                   /\ auth'.result = "Reject" => failed_attempts'[ip] = <<now>>
             /\ (~Expired(ip) /\ auth'.result \in {"Allow", "Lockout"}) =>
                   /\ failed_attempts' = failed_attempts
                   /\ blocked_ips' = blocked_ips
      ]_vars

\* A check made after the lockout had run out wiped the five failures of
\* the identity from _failed_attempts.
C12_Witness ==
    /\ auth.result = "Allow"
    /\ auth.key = Secret
    /\ LockedSince(recent, auth.ip) # Never
    /\ now - LockedSince(recent, auth.ip) > BLOCK_DURATION
    /\ auth.ip \notin DOMAIN failed_attempts
    /\ auth.ip \notin DOMAIN blocked_ips

\* C13: a call with a secret configured for an identity that is not blocked:
\* with a key other than the secret (a missing key included) it is answered
\* Reject and the identity's list becomes what was left of it with exactly
\* one new entry, the time of the call, at its end; with the secret it is
\* answered Allow and the list gains nothing.
IsSuffix(a, b) == Len(a) <= Len(b) /\ a = SubSeq(b, Len(b) - Len(a) + 1, Len(b))

C13_RejectRecordsOne ==
    [][(CallStep /\ API_KEY # None) =>
         LET ip == auth'.ip
             active == ip \in DOMAIN blocked_ips /\ now - blocked_ips[ip] < BLOCK_DURATION
             old == DictGet(failed_attempts, ip, <<>>)
             new == DictGet(failed_attempts', ip, <<>>)
         IN  ~active =>
               /\ auth'.key # API_KEY =>
                     /\ auth'.result = "Reject"
                     /\ Len(new) >= 1
                     /\ new[Len(new)] = now
                     /\ IsSuffix(SubSeq(new, 1, Len(new) - 1), old)
                     /\ Len(recent'[ip]) >= 1
               /\ auth'.key = API_KEY =>
                     /\ auth'.result = "Allow"
                     /\ IsSuffix(new, old)
                     /\ recent' = recent
      ]_vars

\* A request without a key was rejected and its failure was added to an
\* earlier one of the same identity.
C13_Witness ==
    /\ API_KEY = Secret
    /\ auth.key = None
    /\ auth.result = "Reject"
    /\ Len(failed_attempts[auth.ip]) = 2
    /\ failed_attempts[auth.ip][2] = now
    /\ failed_attempts[auth.ip][1] < now

(***************************************************************************)
(* More claims about the processing stage, checked under SpecTimed.        *)
(***************************************************************************)
\* C14: the handler of a request that reached processing resumes, and the
\* response is produced, no later than INFERENCE_TIMEOUT seconds after the
\* work was started, however long the work runs.
C14_RespondsByDeadline ==
    \A i \in Reqs :
        req[i].work \in {"returned", "raised"} => req[i].took <= INFERENCE_TIMEOUT

(***************************************************************************)
(* Claims about the dicts across requests, checked under SpecLockout.      *)
(***************************************************************************)
\* C15: _failed_attempts or _blocked_ips changes only in the verify_api_key
\* step of a request that is answered Reject or whose check finds the
\* identity's lockout run out; a request answered Lockout inside an active
\* lockout, and every step that ends in 415, 413, 504, 500 or 200 or moves
\* a request on, leaves both dicts as they were.
C15_DictsChange == failed_attempts' # failed_attempts \/ blocked_ips' # blocked_ips

C15_OnlyRejectOrExpiry ==
    [][/\ C15_DictsChange =>
            /\ CallStep
            /\ \E i \in Reqs : req[i].pc = "Received" /\ req'[i].pc # "Received"
            /\ auth'.result = "Reject" \/ Expired(auth'.ip)
       /\ (CallStep /\ auth'.result = "Lockout") =>
            /\ ~C15_DictsChange
            /\ \E i \in Reqs : req'[i].pc = "Responded" /\ req'[i].status = 429
       /\ (CallStep /\ auth'.result = "Allow" /\ ~Expired(auth'.ip)) => ~C15_DictsChange
       /\ \A i \in Reqs :
            (req'[i] # req[i] /\ req[i].pc # "Received") => ~C15_DictsChange
      ]_vars

\* A request made inside an active lockout, later than its start, was
\* answered 429 and the lockout still carries its first timestamp.
C15_Witness ==
    /\ auth.result = "Lockout"
    /\ req[1].pc = "Responded"
    /\ req[1].status = 429
    /\ auth.ip \in DOMAIN blocked_ips
    /\ blocked_ips[auth.ip] < now
    /\ LockedSince(recent, auth.ip) = blocked_ips[auth.ip]
    /\ Len(failed_attempts[auth.ip]) = MAX_FAILED_ATTEMPTS

(***************************************************************************)
(* More claims about the request pipeline, checked under SpecGateway.      *)
(***************************************************************************)
\* C16: with requests interleaved, the check and the update of a request's
\* verify_api_key call are one step in which no other request moves; a
\* request answered 401 has added the time of its call to the end of its
\* identity's list in that step; and (the clock standing still, so that
\* nothing ages out) an identity's list holds one entry per Reject it got.
C16_NoLostFailure ==
    /\ [](\A ip \in Ids : DictGet(failed_attempts, ip, <<>>) = DictGet(recent, ip, <<>>))
    /\ [][\A i \in Reqs :
            (req[i].pc = "Received" /\ req'[i].pc # "Received") =>
                /\ CallStep
                /\ \A j \in Reqs \ {i} : req'[j] = req[j]
                /\ (req'[i].pc = "Responded" /\ req'[i].status = 401) <=> auth'.result = "Reject"
                /\ auth'.result = "Reject" =>
                      failed_attempts'[auth'.ip] =
                          Append(DictGet(failed_attempts, auth'.ip, <<>>), now)
                /\ auth'.result # "Reject" => failed_attempts' = failed_attempts
         ]_vars

\* While one request waits for its work, another is answered 401 and its
\* identity's list holds all of its MAX_FAILED_ATTEMPTS - 1 rejections.
C16_Witness ==
    /\ req[1].pc = "Uploaded"
    /\ req[1].work = "running"
    /\ req[2].pc = "Responded"
    /\ req[2].status = 401
    /\ auth.result = "Reject"
    /\ Len(failed_attempts[auth.ip]) = MAX_FAILED_ATTEMPTS - 1

\* C17: with two requests in flight, the body of every 200 response (and
\* the result a request holds before it is sent) is _process_image of that
\* request's own uploaded bytes and content type, and no error response
\* carries the result of any work.
C17_OwnResult ==
    \A i \in Reqs :
        /\ (req[i].pc = "Processed" \/ (req[i].pc = "Responded" /\ req[i].status = 200)) =>
              /\ req[i].work = "returned"
              /\ req[i].image # NoBytes
              /\ req[i].body = ProcessImage(req[i].image, req[i].ctype)
        /\ (req[i].pc = "Responded" /\ req[i].status # 200) => req[i].body = NoBytes

\* Two requests uploaded different files and each got 200 with its own result.
C17_Witness ==
    /\ \A i \in Reqs : req[i].pc = "Responded" /\ req[i].status = 200
    /\ req[1].image = Stream(1)
    /\ req[2].image = Stream(MAX_FILE_SIZE)
    /\ req[1].body # req[2].body

(***************************************************************************)
(* More claims about the upload loop, checked under SpecUpload.            *)
(***************************************************************************)
\* The number of bytes in a value made of segments.
RECURSIVE Size(_)
Size(bytes) ==
    IF bytes = <<>> THEN 0 ELSE (bytes[1][2] - bytes[1][1]) + Size(Tail(bytes))

\* The bytes held in chunks lo..hi of a list (by halves).
RECURSIVE Held(_, _, _)
Held(chunks, lo, hi) ==
    IF lo > hi THEN 0
    ELSE IF lo = hi THEN Size(chunks[lo])
    ELSE LET mid == (lo + hi) \div 2
         IN  Held(chunks, lo, mid) + Held(chunks, mid + 1, hi)

Buffered(ls) == Held(ls.chunks, 1, Len(ls.chunks))

\* C18: at every step of the loop the bytes held in chunks are at most
\* MAX_FILE_SIZE, and with the chunk just read at most MAX_FILE_SIZE +
\* CHUNK_SIZE; the loop has read at most one chunk past MAX_FILE_SIZE from
\* the stream, and once total exceeds MAX_FILE_SIZE it reads no more.
C18_Held ==
    LET held == Buffered(up.ls)
    IN  /\ held <= MAX_FILE_SIZE
        /\ up.ls.pos - held <= CHUNK_SIZE
        /\ up.ls.at # "oversize" => held = up.ls.total

C18_BoundedBuffer ==
    /\ C18_Held
    /\ up.ls.total = up.ls.pos
    /\ up.ls.pos <= MAX_FILE_SIZE + CHUNK_SIZE
    /\ up.ls.total > MAX_FILE_SIZE <=> up.ls.at = "oversize"
    /\ up.ls.at = "oversize" => ~ENABLED UploadRead

\* The loop stopped with MAX_FILE_SIZE bytes held and a full chunk more
\* just read.
C18_Witness ==
    /\ up.ls.at = "oversize"
    /\ Buffered(up.ls) = MAX_FILE_SIZE
    /\ up.ls.total = MAX_FILE_SIZE + CHUNK_SIZE

(***************************************************************************)
(* Claims about the shape of the dicts, checked under SpecAuth.            *)
(***************************************************************************)
\* C19: no list of _failed_attempts ever holds more than
\* MAX_FAILED_ATTEMPTS times, and an identity in _blocked_ips has a list of
\* exactly MAX_FAILED_ATTEMPTS times whose last one is the lockout's time.
C19_RecordShape ==
    /\ \A ip \in DOMAIN failed_attempts :
          /\ Len(failed_attempts[ip]) >= 1
          /\ Len(failed_attempts[ip]) <= MAX_FAILED_ATTEMPTS
    /\ \A ip \in DOMAIN blocked_ips :
          /\ ip \in DOMAIN failed_attempts
          /\ Len(failed_attempts[ip]) = MAX_FAILED_ATTEMPTS
          /\ failed_attempts[ip][MAX_FAILED_ATTEMPTS] = blocked_ips[ip]

\* A lockout whose five failures were spread over time, seen later by a
\* blocked request.
C19_Witness ==
    \E ip \in DOMAIN blocked_ips :
        /\ failed_attempts[ip][1] < failed_attempts[ip][MAX_FAILED_ATTEMPTS]
        /\ blocked_ips[ip] < now
        /\ auth.ip = ip
        /\ auth.result = "Lockout"

\* C20: a call answered Allow for an identity whose lockout has not run out
\* leaves the identity's list of failures as it was, and a Reject that finds
\* MAX_FAILED_ATTEMPTS - 1 failures of the identity still inside
\* ATTEMPT_WINDOW creates the lockout, whatever calls were allowed between
\* those failures.
C20_SuccessKeepsHistory ==
    [][(CallStep /\ API_KEY # None) =>
         LET ip == auth'.ip
             old == DictGet(failed_attempts, ip, <<>>)
         IN  /\ (auth'.result = "Allow" /\ ~Expired(ip)) =>
                   /\ failed_attempts' = failed_attempts
                   /\ blocked_ips' = blocked_ips
             /\ (/\ auth'.result = "Reject"
                 /\ ~Expired(ip)
                 /\ Len(old) = MAX_FAILED_ATTEMPTS - 1
                 /\ now - old[1] < ATTEMPT_WINDOW) =>
                   /\ ip \in DOMAIN blocked_ips'
                   /\ blocked_ips'[ip] = now
                   /\ failed_attempts'[ip] = Append(old, now)
      ]_vars

\* An identity with MAX_FAILED_ATTEMPTS - 1 failures inside the window
\* presented the secret, was allowed, and still has all of them on record.
C20_Witness ==
    /\ API_KEY = Secret
    /\ auth.result = "Allow"
    /\ auth.key = Secret
    /\ auth.ip \in DOMAIN failed_attempts
    /\ Len(failed_attempts[auth.ip]) = MAX_FAILED_ATTEMPTS - 1
    /\ now - failed_attempts[auth.ip][1] < ATTEMPT_WINDOW
    /\ failed_attempts[auth.ip][1] < now

=============================================================================
